---- MODULE Spec2Model ----
(***************************************************************************)
(* Model of the stx-supply-schedule scripts: the run() pipeline of          *)
(* src/src/index.ts ("index") and the earlier run() of                      *)
(* src/unnamed/part_000 lines 53-122 ("early").  A run reads the ledger     *)
(* store, accumulates one entry per block height, validates the series,     *)
(* prunes it (index only) and writes supply.csv.                            *)
(***************************************************************************)
EXTENDS Integers, Sequences, FiniteSets, TLC

(***************************************************************************)
(* Bounds of the model.                                                    *)
(***************************************************************************)
\* lock-transfer and vesting heights of the enumerated stores are 0..MaxHeight
MaxHeight == 2
\* number of rows of the accounts table
MaxAccounts == 2
\* wall-clock seconds a run may start at are 1..MaxClock
MaxClock == 2

(***************************************************************************)
(* bigint values.  A non-negative bigint v is the triple <<t, m, l>> of    *)
(* its base-10^6 limbs: v = t * 10^12 + m * 10^6 + l with 0 <= m, l <     *)
(* 10^6, so that values of the order of 10^15 micro-STX keep every digit.  *)
(***************************************************************************)
\* digits after the decimal point of an STX amount
FracDigits == 6

Million == 10 ^ FracDigits

Big(t, m, l) == <<t, m, l>>

BigZero == Big(0, 0, 0)

BigAdd(a, b) ==
  LET l == a[3] + b[3]
      m == a[2] + b[2] + (l \div Million)
  IN  Big(a[1] + b[1] + (m \div Million), m % Million, l % Million)

\* a - b for a >= b
BigSub(a, b) ==
  LET bl == IF a[3] < b[3] THEN 1 ELSE 0
      l == a[3] + bl * Million - b[3]
      bm == IF a[2] - bl < b[2] THEN 1 ELSE 0
      m == a[2] - bl + bm * Million - b[2]
  IN  Big(a[1] - bm - b[1], m, l)

BigGE(a, b) ==
  \/ a[1] > b[1]
  \/ a[1] = b[1] /\ a[2] > b[2]
  \/ a[1] = b[1] /\ a[2] = b[2] /\ a[3] >= b[3]

\* the result of an aggregate over no rows (SQL NULL, JavaScript null)
Null == <<>>

(***************************************************************************)
(* Strings are sequences of one-character strings.                         *)
(***************************************************************************)
DigitChars == <<"0", "1", "2", "3", "4", "5", "6", "7", "8", "9">>

RECURSIVE NatToString(_)
NatToString(n) ==
  IF n < 10 THEN <<DigitChars[n + 1]>>
  ELSE NatToString(n \div 10) \o <<DigitChars[(n % 10) + 1]>>

RECURSIVE Zeros(_)
Zeros(k) == IF k <= 0 THEN <<>> ELSE <<"0">> \o Zeros(k - 1)

\* String.prototype.padStart(n, '0')
PadStart(s, n) == Zeros(n - Len(s)) \o s

\* bigint.toString()
BigToString(v) ==
  IF v[1] # 0
    THEN NatToString(v[1]) \o PadStart(NatToString(v[2]), FracDigits)
                           \o PadStart(NatToString(v[3]), FracDigits)
    ELSE IF v[2] # 0
    THEN NatToString(v[2]) \o PadStart(NatToString(v[3]), FracDigits)
    ELSE NatToString(v[3])

\* s.slice(0, -k)
SliceHead(s, k) == SubSeq(s, 1, Len(s) - k)

\* s.slice(-k)
SliceTail(s, k) == IF Len(s) <= k THEN s ELSE SubSeq(s, Len(s) - k + 1, Len(s))

\* s.replace(/\B(?=(\d{3})+(?!\d))/g, ',') on a string of digits: a comma
\* before every group of three digits counted from the right, none in front
RECURSIVE Commas(_)
Commas(s) ==
  IF Len(s) <= 3 THEN s
  ELSE Commas(SubSeq(s, 1, Len(s) - 3)) \o <<",">> \o SubSeq(s, Len(s) - 2, Len(s))

(***************************************************************************)
(* The ledger store: the accounts and account_vesting tables.              *)
(***************************************************************************)
VARIABLES accounts, account_vesting

RECURSIVE SumBig(_)
\* SUM over a set of <<row, value>> pairs
SumBig(pairs) ==
  IF pairs = {} THEN BigZero
  ELSE LET p == CHOOSE x \in pairs : TRUE
       IN  BigAdd(p[2], SumBig(pairs \ {p}))

RECURSIVE SortAsc(_)
\* ORDER BY ... ASC of a set of integers
SortAsc(S) ==
  IF S = {} THEN <<>>
  ELSE LET m == CHOOSE x \in S : \A y \in S : x <= y
       IN  <<m>> \o SortAsc(S \ {m})

MaxOf(S) == CHOOSE x \in S : \A y \in S : y <= x

\* ORDER BY address, block_id DESC, vtxindex DESC: r comes before q
Newer(r, q) ==
  \/ r.block_id > q.block_id
  \/ r.block_id = q.block_id /\ r.vtxindex > q.vtxindex

\* SELECT DISTINCT ON (address) ... : the first row of every address
DistinctOnAddress(rows) ==
  {r \in rows : \A q \in rows : (q.address = r.address /\ q # r) => Newer(r, q)}

Net(r) == BigSub(r.credit_value, r.debit_value)

\* STX_TOTAL_AT_BLOCK_QUERY with $1 = h
StxTotalAtBlock(h) ==
  LET balances == DistinctOnAddress({r \in accounts :
                     /\ r.type = "STACKS"
                     /\ r.lock_transfer_block_id <= h
                     /\ r.block_id <= h})
  IN  IF balances = {} THEN Null ELSE SumBig({<<r, Net(r)>> : r \in balances})

\* STX_LATEST_BLOCK_HEIGHT_QUERY: MAX(block_id), <<>> (null) over no rows
StxLatestBlockHeight ==
  IF accounts = {} THEN <<>> ELSE <<MaxOf({r.block_id : r \in accounts})>>

\* STX_VESTED_BY_BLOCK_QUERY, after the map of run(): block_height, micro_stx
StxVestedByBlock ==
  LET stacks == {r \in account_vesting : r.type = "STACKS"}
      ids == SortAsc({r.block_id : r \in stacks})
  IN  [i \in 1..Len(ids) |->
         [block_height |-> ids[i],
          micro_stx |-> SumBig({<<r, r.vesting_value>> :
                                 r \in {q \in stacks : q.block_id = ids[i]}})]]

\* STX_TOTAL_VESTED_BY_BLOCK_QUERY with $1 = h, $2 = floor
StxTotalVestedByBlock(h, floor) ==
  LET rows == {r \in account_vesting :
                 r.type = "STACKS" /\ r.block_id <= h /\ r.block_id > floor}
  IN  IF rows = {} THEN Null ELSE SumBig({<<r, r.vesting_value>> : r \in rows})

\* LOCK_TRANSFER_BLOCK_IDS_QUERY, after the map of run()
LockTransferBlockIds == SortAsc({r.lock_transfer_block_id : r \in accounts})

\* the early script's aggregate reads only addresses of the canonical shape:
\* address !~ '(-|_)' AND length(address) BETWEEN 33 AND 34
CanonicalShape(address) == address.len \in 33..34 /\ ~address.sep

\* STX_TOTAL_TXS_AT_BLOCK_QUERY with $1 = h
StxTotalTxsAtBlock(h) ==
  LET rows == DistinctOnAddress({r \in accounts :
                  /\ r.type = "STACKS"
                  /\ CanonicalShape(r.address)
                  /\ r.lock_transfer_block_id <= h})
  IN  IF rows = {} THEN Null ELSE SumBig({<<r, Net(r)>> : r \in rows})

(***************************************************************************)
(* The queries and helpers of the placeholder script.                      *)
(***************************************************************************)
\* ORDER BY address: the addresses of the model in their collation order
AddressOrder == <<"a1", "a2", "p1", "p2">>

Rank(address) == CHOOSE i \in 1..Len(AddressOrder) : AddressOrder[i] = address.name

\* credit_value::numeric - debit_value::numeric > 0
Positive(r) == BigGE(r.credit_value, r.debit_value) /\ r.credit_value # r.debit_value

\* GET_PLACEHOLDER_ACCOUNTS_QUERY: NOT address !~ '(-|_)' keeps the addresses
\* that hold a '-' or a '_'; one row for every address, in address order
GetPlaceholderAccounts ==
  LET accts == DistinctOnAddress({r \in accounts :
                  /\ r.type = "STACKS"
                  /\ r.address.sep
                  /\ Positive(r)})
      ranks == SortAsc({Rank(r.address) : r \in accts})
  IN  [i \in 1..Len(ranks) |->
         LET r == CHOOSE q \in accts : Rank(q.address) = ranks[i]
         IN  [address |-> r.address, amount |-> Net(r),
              block_height |-> r.lock_transfer_block_id]]

RECURSIVE Orderings(_)
\* the sequences that list every element of S once
Orderings(S) ==
  IF S = {} THEN {<<>>}
  ELSE UNION {{<<x>> \o t : t \in Orderings(S \ {x})} : x \in S}

\* GET_PLACEHOLDER_VESTING_ADDRESSES_QUERY: the query has no ORDER BY, its
\* rows come in any order
GetPlaceholderVestingAddresses ==
  Orderings({[address |-> r.address, amount |-> r.vesting_value,
              block_height |-> r.block_id] :
             r \in {v \in account_vesting : v.type = "STACKS" /\ v.address.sep}})

\* c32check.b58ToC32: '-' and '_' are not in the base58 alphabet, decoding an
\* address that holds one throws (the queries return no other address)
B58ToC32(address) == IF address.sep THEN "throws" ELSE "c32"

IsValidBtcAddress(address) ==
  IF address.len < 26 \/ address.len > 35 THEN FALSE
  ELSE B58ToC32(address) # "throws"

\* rows.filter(r => !isValidBtcAddress(r.address))
FilterPlaceholders(rows) ==
  LET kept == SortAsc({i \in 1..Len(rows) : ~IsValidBtcAddress(rows[i].address)})
  IN  [k \in 1..Len(kept) |-> rows[kept[k]]]

\* rows.map(r => BigInt(r.amount)).reduce((a, b) => a + b): reduce of an
\* empty array without an initial value throws (here Null)
TotalPlaceholderBalance(rows) ==
  IF rows = <<>> THEN Null
  ELSE SumBig({<<i, rows[i].amount>> : i \in 1..Len(rows)})

\* placeholderMap.get(address) ?? 0n, the Map as a sequence of its entries
MapGet(m, address) ==
  IF \E i \in 1..Len(m) : m[i][1] = address
    THEN m[CHOOSE i \in 1..Len(m) : m[i][1] = address][2]
    ELSE BigZero

\* placeholderMap.set(address, amount): a new key goes last
MapSet(m, address, amount) ==
  IF \E i \in 1..Len(m) : m[i][1] = address
    THEN [i \in 1..Len(m) |-> IF m[i][1] = address THEN <<address, amount>> ELSE m[i]]
    ELSE Append(m, <<address, amount>>)

RECURSIVE PlaceholderMap(_, _)
\* the forEach that fills placeholderMap, started with the Map m
PlaceholderMap(m, rows) ==
  IF rows = <<>> THEN m
  ELSE LET r == Head(rows)
       IN  PlaceholderMap(MapSet(m, r.address, BigAdd(MapGet(m, r.address), r.amount)),
                          Tail(rows))

\* microStxToReadable of the placeholder script
MicroStxToReadable(microStx) == Commas(SliceHead(PadStart(microStx, 7), FracDigits))

(***************************************************************************)
(* The state of a run.  Heights that JavaScript may hold as null or NaN    *)
(* are boxed: <<n>> is the number n, <<>> is null / NaN.                   *)
(***************************************************************************)
VARIABLES
  variant,                  \* which script runs: "index" or "early"
  pc,                       \* the statement run() is at
  client,                   \* the store connection
  currentBlockHeight,       \* currentBlockHeight / initBlockHeight (boxed)
  currentDate,              \* seconds since the epoch read at the start
  initStxSupply,            \* early script: balance read with the height
  vestingResults,
  lockTransferBlockHeights,
  lastBlockHeight,          \* boxed
  blockHeight,              \* the loop variable (boxed)
  totals,
  unpruned,                 \* the series as it left the accumulator loop
  queries,                  \* the store queries the loop has sent
  fds,                      \* state of the descriptor of every path
  files,                    \* lines of every file on disk
  wi,                       \* number of entries the writer has written
  error,                    \* what ended the run, if it failed
  run,                      \* 1 in the first run, 2 in the run after it
  prevDate,                 \* currentDate of the previous run
  prevFiles,                \* the files the previous run left
  placeholderAccounts,      \* placeholder script: rows of the accounts query
  placeholderVesting,       \* placeholder script: rows of the vesting query
  totalPlaceholderBalance,
  placeholderMap,           \* address and summed amount, in insertion order
  fdnum,                    \* the number openSync returned for every path
  writes                    \* the row writes of the placeholder writers

store == <<accounts, account_vesting, variant>>

prog == <<pc, client, currentBlockHeight, currentDate, initStxSupply,
          vestingResults, lockTransferBlockHeights, lastBlockHeight,
          blockHeight, totals, unpruned, queries, fds, files, wi, error>>

hist == <<run, prevDate, prevFiles>>

report == <<placeholderAccounts, placeholderVesting, totalPlaceholderBalance,
            placeholderMap, fdnum, writes>>

vars == <<store, prog, hist, report>>

NaN == <<>>

Num(n) == <<n>>

IsNum(x) == x # NaN

\* a < b of two numbers, false when either is NaN
Less(a, b) == IsNum(a) /\ IsNum(b) /\ a[1] < b[1]

\* xs.slice(-1)[0]: the last element, undefined (here NaN) for an empty array
LastOf(xs) == IF xs = <<>> THEN NaN ELSE Num(xs[Len(xs)])

\* Math.max(a, b) + 5
Horizon(a, b) ==
  IF IsNum(a) /\ IsNum(b)
    THEN Num((IF a[1] >= b[1] THEN a[1] ELSE b[1]) + 5)
    ELSE NaN

Includes(xs, x) == \E i \in 1..Len(xs) : xs[i] = x

VestingBlockHeights == [i \in 1..Len(vestingResults) |-> vestingResults[i].block_height]

(***************************************************************************)
(* The stores the model enumerates.                                        *)
(***************************************************************************)
A1 == [name |-> "a1", len |-> 34, sep |-> FALSE]

A2 == [name |-> "a2", len |-> 34, sep |-> FALSE]

\* 1,352,464,598 STX, the final supply the index script insists on
FinalSupplyMicro == Big(1352, 464598, 0)

Credits == {Big(0, 0, 500), FinalSupplyMicro}

VestingValues == {Big(0, 0, 500000)}

\* the first writes of the ledger, all in block 0: address a1 is credited
\* 500 micro-STX (vtxindex 0) or the whole supply (vtxindex 1), unlocking at
\* any height
ProductRows ==
  { [address |-> A1, type |-> "STACKS", credit_value |-> c,
     debit_value |-> BigZero, lock_transfer_block_id |-> k,
     block_id |-> 0, vtxindex |-> (IF c = FinalSupplyMicro THEN 1 ELSE 0)] :
    c \in Credits, k \in 0..MaxHeight }

\* other writes: a second address with a debit, written in block 1; a smaller
\* balance of a1 with the last unlock, written in block 1; the whole supply
\* on the second address; a row of another token type; and a ledger that
\* has already passed every unlock
ExtraRows ==
  { [address |-> A2, type |-> "STACKS", credit_value |-> Big(0, 0, 500),
     debit_value |-> Big(0, 0, 200), lock_transfer_block_id |-> 0,
     block_id |-> 1, vtxindex |-> 1],
    [address |-> A1, type |-> "STACKS", credit_value |-> Big(0, 0, 500),
     debit_value |-> BigZero, lock_transfer_block_id |-> MaxHeight,
     block_id |-> 1, vtxindex |-> 0],
    [address |-> A2, type |-> "STACKS", credit_value |-> FinalSupplyMicro,
     debit_value |-> BigZero, lock_transfer_block_id |-> 1,
     block_id |-> 0, vtxindex |-> 0],
    [address |-> A2, type |-> "OTHER", credit_value |-> Big(0, 0, 500),
     debit_value |-> BigZero, lock_transfer_block_id |-> MaxHeight,
     block_id |-> 0, vtxindex |-> 2],
    [address |-> A1, type |-> "STACKS", credit_value |-> FinalSupplyMicro,
     debit_value |-> BigZero, lock_transfer_block_id |-> 0,
     block_id |-> MaxHeight + 5, vtxindex |-> 0] }

AccountRows == ProductRows \cup ExtraRows

\* the version order of an address is total: no two rows of one address share
\* block_id and vtxindex
Versioned(rows) ==
  \A r, q \in rows :
    (r # q /\ r.address = q.address) => (Newer(r, q) \/ Newer(q, r))

VestingRows ==
  [address : {A1}, type : {"STACKS"}, vesting_value : VestingValues,
   block_id : 0..MaxHeight]

\* the scenario of the specification: one account unlocking 1,000,000
\* micro-STX at block 100, a vesting release of 500,000 at block 105
ScenarioAccounts ==
  { [address |-> A1, type |-> "STACKS", credit_value |-> Big(0, 1, 0),
     debit_value |-> BigZero, lock_transfer_block_id |-> 100,
     block_id |-> 100, vtxindex |-> 0] }

ScenarioVesting ==
  { [address |-> A1, type |-> "STACKS", vesting_value |-> Big(0, 0, 500000),
     block_id |-> 105] }

P1 == [name |-> "p1", len |-> 34, sep |-> TRUE]

P2 == [name |-> "p2", len |-> 12, sep |-> TRUE]

\* 4,392,964 STX, the balance the placeholder script insists on
PlaceholderMicro == Big(4, 392964, 0)

\* a ledger for the placeholder script: a1 holds the supply that is not under
\* a placeholder address
PlaceholderBase ==
  [address |-> A1, type |-> "STACKS",
   credit_value |-> BigSub(FinalSupplyMicro, PlaceholderMicro),
   debit_value |-> BigZero, lock_transfer_block_id |-> 0,
   block_id |-> 0, vtxindex |-> 0]

\* balances under placeholder addresses: the whole placeholder balance on
\* p1, 4,000,000 STX of it on p2, and a spent balance on p2
PlaceholderAccountRows ==
  { [address |-> P1, type |-> "STACKS", credit_value |-> PlaceholderMicro,
     debit_value |-> BigZero, lock_transfer_block_id |-> 1,
     block_id |-> 0, vtxindex |-> 1],
    [address |-> P2, type |-> "STACKS", credit_value |-> Big(4, 0, 0),
     debit_value |-> BigZero, lock_transfer_block_id |-> 1,
     block_id |-> 0, vtxindex |-> 2],
    [address |-> P2, type |-> "STACKS", credit_value |-> Big(0, 0, 500),
     debit_value |-> Big(0, 0, 500), lock_transfer_block_id |-> 0,
     block_id |-> 0, vtxindex |-> 3] }

\* vesting releases: one of a1, and releases under placeholder addresses
\* that make up the placeholder balance alone or with the balance on p2
PlaceholderVestingRows ==
  { [address |-> A1, type |-> "STACKS", vesting_value |-> Big(0, 0, 500000),
     block_id |-> 1],
    [address |-> P1, type |-> "STACKS", vesting_value |-> Big(0, 392964, 0),
     block_id |-> MaxHeight],
    [address |-> P2, type |-> "STACKS", vesting_value |-> Big(0, 392964, 0),
     block_id |-> 1],
    [address |-> P1, type |-> "STACKS", vesting_value |-> Big(4, 0, 0),
     block_id |-> 1] }

PlaceholderStores ==
  { <<{PlaceholderBase} \cup a, v>> :
      a \in {x \in SUBSET PlaceholderAccountRows : Versioned(x)},
      v \in SUBSET PlaceholderVestingRows }

RECURSIVE SubsetsUpTo(_, _)
\* the subsets of S of at most k elements
SubsetsUpTo(S, k) ==
  IF k = 0 THEN {{}}
  ELSE LET smaller == SubsetsUpTo(S, k - 1)
       IN  smaller \cup {p \cup {x} : p \in smaller, x \in S}

Stores ==
  { <<a, v>> : a \in {x \in SubsetsUpTo(AccountRows, MaxAccounts) : Versioned(x)},
               v \in SUBSET VestingRows }
  \cup { <<ScenarioAccounts, ScenarioVesting>> }
  \cup PlaceholderStores

Variants == {"index", "early", "placeholder"}

Paths == {"supply.csv", "placeholder-entries.csv", "placeholder-unique.csv"}

\* the scripts whose loop, pruning and estimated_time are those of index.ts
IndexLike == variant \in {"index", "placeholder"}

ProgInit ==
  /\ pc = "start"
  /\ client = "none"
  /\ currentBlockHeight = NaN
  /\ currentDate = 0
  /\ initStxSupply = Null
  /\ vestingResults = <<>>
  /\ lockTransferBlockHeights = <<>>
  /\ lastBlockHeight = NaN
  /\ blockHeight = NaN
  /\ totals = <<>>
  /\ unpruned = <<>>
  /\ queries = <<>>
  /\ fds = [p \in Paths |-> "none"]
  /\ wi = 0
  /\ error = "none"
  /\ placeholderAccounts = <<>>
  /\ placeholderVesting = <<>>
  /\ totalPlaceholderBalance = Null
  /\ placeholderMap = <<>>
  /\ fdnum = [p \in Paths |-> 0]
  /\ writes = <<>>

Init ==
  /\ \E st \in Stores : accounts = st[1] /\ account_vesting = st[2]
  /\ variant \in Variants
  /\ ProgInit
  /\ files = [p \in Paths |-> Null]
  /\ run = 1
  /\ prevDate = 0
  /\ prevFiles = [p \in Paths |-> Null]

(***************************************************************************)
(* run(): connection and the queries before the loop.                      *)
(***************************************************************************)
\* index.ts: currentBlockHeight, currentDate, the two lists, lastBlockHeight
StartIndex ==
  /\ pc = "start" /\ variant = "index"
  /\ client' = "connected"
  /\ currentBlockHeight' = StxLatestBlockHeight
  /\ \E now \in 1..MaxClock : currentDate' = now
  /\ vestingResults' = StxVestedByBlock
  /\ lockTransferBlockHeights' = LockTransferBlockIds
  /\ lastBlockHeight' = Horizon(LastOf(lockTransferBlockHeights'),
                                LastOf(VestingBlockHeights'))
  /\ blockHeight' = currentBlockHeight'
  /\ pc' = "loop"
  /\ UNCHANGED <<initStxSupply, totals, unpruned, queries, fds, files, wi, error>>
  /\ UNCHANGED <<store, hist, report>>

\* STX_LATEST_TOTAL_TXS_QUERY: rows[0].val is MAX(block_id), rows[1].val the
\* balance of the canonical addresses unlocked at that height
StxLatestTotalTxs ==
  <<StxLatestBlockHeight,
    IF accounts = {} THEN Null ELSE StxTotalTxsAtBlock(StxLatestBlockHeight[1])>>

\* early script: BigInt(rows[1].val) throws on null
StartEarly ==
  /\ pc = "start" /\ variant = "early"
  /\ client' = "connected"
  /\ currentBlockHeight' = StxLatestTotalTxs[1]
  /\ IF StxLatestTotalTxs[2] = Null
       THEN /\ pc' = "failed" /\ error' = "TypeError"
            /\ UNCHANGED <<initStxSupply, vestingResults, lockTransferBlockHeights,
                           lastBlockHeight, blockHeight>>
       ELSE /\ initStxSupply' = StxLatestTotalTxs[2]
            /\ vestingResults' = StxVestedByBlock
            /\ lockTransferBlockHeights' = LockTransferBlockIds
            /\ lastBlockHeight' = Horizon(LastOf(lockTransferBlockHeights'),
                                          LastOf(VestingBlockHeights'))
            /\ blockHeight' = currentBlockHeight'
            /\ pc' = "loop" /\ UNCHANGED error
  /\ UNCHANGED <<currentDate, totals, unpruned, queries, fds, files, wi>>
  /\ UNCHANGED <<store, hist, report>>

\* placeholder script: as index.ts, and before the lists of heights the two
\* placeholder queries, the total of their amounts and placeholderMap
StartPlaceholder ==
  /\ pc = "start" /\ variant = "placeholder"
  /\ client' = "connected"
  /\ currentBlockHeight' = StxLatestBlockHeight
  /\ \E now \in 1..MaxClock : currentDate' = now
  /\ placeholderAccounts' = FilterPlaceholders(GetPlaceholderAccounts)
  /\ \E rows \in GetPlaceholderVestingAddresses :
        placeholderVesting' = FilterPlaceholders(rows)
  /\ totalPlaceholderBalance' =
        TotalPlaceholderBalance(placeholderAccounts' \o placeholderVesting')
  /\ IF totalPlaceholderBalance' = Null
       THEN /\ pc' = "failed" /\ error' = "TypeError"
            /\ UNCHANGED <<placeholderMap, vestingResults, lockTransferBlockHeights,
                           lastBlockHeight, blockHeight>>
       ELSE /\ placeholderMap' =
                 PlaceholderMap(<<>>, placeholderAccounts' \o placeholderVesting')
            /\ vestingResults' = StxVestedByBlock
            /\ lockTransferBlockHeights' = LockTransferBlockIds
            /\ lastBlockHeight' = Horizon(LastOf(lockTransferBlockHeights'),
                                          LastOf(VestingBlockHeights'))
            /\ blockHeight' = currentBlockHeight'
            /\ pc' = "loop" /\ UNCHANGED error
  /\ UNCHANGED <<initStxSupply, totals, unpruned, queries, fds, files, wi>>
  /\ UNCHANGED <<store, hist, fdnum, writes>>

(***************************************************************************)
(* The accumulator loop.                                                   *)
(***************************************************************************)
\* the loop condition with <= for <
LoopContinuesInclusive ==
  IsNum(blockHeight) /\ IsNum(lastBlockHeight) /\ blockHeight[1] <= lastBlockHeight[1]

\* blockHeight < lastBlockHeight
LoopContinues == Less(blockHeight, lastBlockHeight)

\* an increment by two
NextHeightSkip(h) == h + 2

\* blockHeight++
NextHeight(h) == h + 1

Prev == totals[Len(totals)]

FirstStep(h) == Num(h) = currentBlockHeight

\* the factor of 1000 applied to the time passed only
BlockTimestampMisplaced(h) ==
  LET blockTimePassed == (h - currentBlockHeight[1]) * 10 * 60
  IN  currentDate + blockTimePassed * 1000

\* blockTimestamp as the milliseconds given to new Date(...); toISOString()
\* writes a different string for every such value
BlockTimestamp(h) ==
  LET blockTimePassed == (h - currentBlockHeight[1]) * 10 * 60
  IN  (currentDate + blockTimePassed) * 1000

\* index.ts: whether the step at h sends STX_TOTAL_VESTED_BY_BLOCK_QUERY
VestingQueried(h) == Includes(VestingBlockHeights, h)

\* the balance is queried at the first step only
BalanceQueriedFirstOnly(h) == FirstStep(h)

\* index.ts: whether the step at h sends STX_TOTAL_AT_BLOCK_QUERY
BalanceQueried(h) == Includes(lockTransferBlockHeights, h) \/ FirstStep(h)

\* the vested amount is not carried to a step without a release
IndexVestedNoCarry(h) ==
  IF VestingQueried(h)
    THEN StxTotalVestedByBlock(h, currentBlockHeight[1])
    ELSE BigZero

\* index.ts: total.vested_micro_stx of the step at h (Null: BigInt throws)
IndexVested(h) ==
  IF VestingQueried(h)
    THEN StxTotalVestedByBlock(h, currentBlockHeight[1])
    ELSE IF totals = <<>> THEN BigZero ELSE Prev.vested_micro_stx

\* index.ts: total.queried_micro_stx of the step at h (Null: BigInt throws)
IndexQueried(h) ==
  IF BalanceQueried(h)
    THEN StxTotalAtBlock(h)
    ELSE Prev.queried_micro_stx

\* the loop of index.ts, which is also the loop of the placeholder script
StepIndex ==
  /\ pc = "loop" /\ IndexLike
  /\ LoopContinues
  /\ LET h == blockHeight[1]
         vq == IF VestingQueried(h)
                 THEN << <<"STX_TOTAL_VESTED_BY_BLOCK_QUERY", h, currentBlockHeight[1]>> >>
                 ELSE <<>>
         bq == IF BalanceQueried(h)
                 THEN << <<"STX_TOTAL_AT_BLOCK_QUERY", h>> >>
                 ELSE <<>>
     IN  IF IndexVested(h) = Null
           THEN /\ queries' = queries \o vq
                /\ pc' = "failed" /\ error' = "TypeError"
                /\ UNCHANGED <<totals, blockHeight>>
           ELSE IF IndexQueried(h) = Null
           THEN /\ queries' = queries \o vq \o bq
                /\ pc' = "failed" /\ error' = "TypeError"
                /\ UNCHANGED <<totals, blockHeight>>
           ELSE /\ queries' = queries \o vq \o bq
                /\ totals' = Append(totals,
                     [block_height |-> h,
                      queried_micro_stx |-> IndexQueried(h),
                      vested_micro_stx |-> IndexVested(h),
                      total_calculated |-> BigAdd(IndexQueried(h), IndexVested(h)),
                      date_time |-> BlockTimestamp(h)])
                /\ blockHeight' = Num(NextHeight(h))
                /\ UNCHANGED <<pc, error>>
  /\ UNCHANGED <<client, currentBlockHeight, currentDate, initStxSupply,
                 vestingResults, lockTransferBlockHeights, lastBlockHeight,
                 unpruned, fds, files, wi>>
  /\ UNCHANGED <<store, hist, report>>

\* early script: vestingResults.find(r => r.block_height === blockHeight)
VestingBlock(h) ==
  IF Includes(VestingBlockHeights, h)
    THEN (CHOOSE i \in 1..Len(vestingResults) :
            vestingResults[i].block_height = h)
    ELSE 0

\* early script: total.vested_micro_stx of the step at h
EarlyVested(h) ==
  LET carried == IF totals = <<>> THEN BigZero ELSE Prev.vested_micro_stx
  IN  IF VestingBlock(h) # 0
        THEN BigAdd(carried, vestingResults[VestingBlock(h)].micro_stx)
        ELSE carried

\* early script: whether the step at h sends STX_TOTAL_TXS_AT_BLOCK_QUERY
EarlyBalanceQueried(h) == Includes(lockTransferBlockHeights, h)

\* early script: total.queried_micro_stx of the step at h.  The if at the
\* lock-transfer heights is followed by a second if, not by an else if:
\* whatever the query returned is overwritten by one of its two branches.
EarlyQueried(h) ==
  LET asked == IF EarlyBalanceQueried(h) THEN StxTotalTxsAtBlock(h) ELSE BigZero
  IN  IF FirstStep(h) THEN initStxSupply ELSE Prev.queried_micro_stx

StepEarly ==
  /\ pc = "loop" /\ variant = "early"
  /\ LoopContinues
  /\ LET h == blockHeight[1]
         bq == IF EarlyBalanceQueried(h)
                 THEN << <<"STX_TOTAL_TXS_AT_BLOCK_QUERY", h>> >>
                 ELSE <<>>
     IN  /\ queries' = queries \o bq
         /\ IF EarlyBalanceQueried(h) /\ StxTotalTxsAtBlock(h) = Null
              THEN /\ pc' = "failed" /\ error' = "TypeError"
                   /\ UNCHANGED <<totals, blockHeight>>
              ELSE /\ totals' = Append(totals,
                        [block_height |-> h,
                         queried_micro_stx |-> EarlyQueried(h),
                         vested_micro_stx |-> EarlyVested(h),
                         total_calculated |-> BigAdd(EarlyQueried(h), EarlyVested(h))])
                   /\ blockHeight' = Num(NextHeight(h))
                   /\ UNCHANGED <<pc, error>>
  /\ UNCHANGED <<client, currentBlockHeight, currentDate, initStxSupply,
                 vestingResults, lockTransferBlockHeights, lastBlockHeight,
                 unpruned, fds, files, wi>>
  /\ UNCHANGED <<store, hist, report>>

\* the loop condition blockHeight < lastBlockHeight is false
LoopEnd ==
  /\ pc = "loop"
  /\ ~LoopContinues
  /\ pc' = "validate"
  /\ unpruned' = totals
  /\ UNCHANGED <<client, currentBlockHeight, currentDate, initStxSupply,
                 vestingResults, lockTransferBlockHeights, lastBlockHeight,
                 blockHeight, totals, queries, fds, files, wi, error>>
  /\ UNCHANGED <<store, hist, report>>

(***************************************************************************)
(* The sanity checks.                                                      *)
(***************************************************************************)
\* the assertions of one pair without the one on the totals
PairOkHeightsOnly(ts, i) == ts[i].block_height = ts[i - 1].block_height + 1

\* the assertions of one pair of the series
PairOk(ts, i) ==
  /\ ts[i].block_height = ts[i - 1].block_height + 1
  /\ BigGE(ts[i].total_calculated, ts[i - 1].total_calculated)

\* what the sanity checks throw: totals[0] of an empty series is undefined
SanityError(ts) ==
  IF ts = <<>> THEN "TypeError"
  ELSE IF Num(ts[1].block_height) # currentBlockHeight THEN "AssertionError"
  ELSE IF \E i \in 2..Len(ts) : ~PairOk(ts, i) THEN "AssertionError"
  ELSE "none"

Validate ==
  /\ pc = "validate"
  /\ IF SanityError(totals) # "none"
       THEN pc' = "failed" /\ error' = SanityError(totals)
       ELSE pc' = (IF IndexLike THEN "prune" ELSE "open") /\ UNCHANGED error
  /\ UNCHANGED <<client, currentBlockHeight, currentDate, initStxSupply,
                 vestingResults, lockTransferBlockHeights, lastBlockHeight,
                 blockHeight, totals, unpruned, queries, fds, files, wi>>
  /\ UNCHANGED <<store, hist, report>>

(***************************************************************************)
(* index.ts and the placeholder script: pruning and the checks of the      *)
(* amounts.                                                                *)
(***************************************************************************)
\* ts.splice(i, 1), i counted from 0
Splice(ts, i) == SubSeq(ts, 1, i) \o SubSeq(ts, i + 2, Len(ts))

RECURSIVE PruneFrom(_, _)
\* the iterations i, i - 1, ..., 1 of the pruning loop (i counted from 0)
PruneFrom(ts, i) ==
  IF i > 0
    THEN PruneFrom(IF ts[i + 1].total_calculated = ts[i].total_calculated
                     THEN Splice(ts, i) ELSE ts,
                   i - 1)
    ELSE ts

RECURSIVE PruneUpFrom(_, _)
\* the pruning loop run forwards: for (let i = 1; i < ts.length; i++)
PruneUpFrom(ts, i) ==
  IF i < Len(ts)
    THEN PruneUpFrom(IF ts[i + 1].total_calculated = ts[i].total_calculated
                       THEN Splice(ts, i) ELSE ts,
                     i + 1)
    ELSE ts

PruneForward(ts) == PruneUpFrom(ts, 1)

\* the pruning loop started one entry early: i = ts.length - 2
PruneKeepLast(ts) == PruneFrom(ts, Len(ts) - 2)

Prune(ts) == PruneFrom(ts, Len(ts) - 1)

PruneTotals ==
  /\ pc = "prune"
  /\ totals' = Prune(totals)
  /\ pc' = "final"
  /\ UNCHANGED <<client, currentBlockHeight, currentDate, initStxSupply,
                 vestingResults, lockTransferBlockHeights, lastBlockHeight,
                 blockHeight, unpruned, queries, fds, files, wi, error>>
  /\ UNCHANGED <<store, hist, report>>

\* total_calculated.toString().slice(0, -6) with thousands separators
FinalSupply(ts) ==
  Commas(SliceHead(BigToString(ts[Len(ts)].total_calculated), FracDigits))

ExpectedFinalSupply ==
  <<"1", ",", "3", "5", "2", ",", "4", "6", "4", ",", "5", "9", "8">>

\* placeholder script: microStxToReadable(totalPlaceholderBalance.toString())
PlaceholderBalance == MicroStxToReadable(BigToString(totalPlaceholderBalance))

ExpectedPlaceholderBalance == <<"4", ",", "3", "9", "2", ",", "9", "6", "4">>

\* placeholder script: microStxToReadable of the last total
PlaceholderFinalSupply(ts) ==
  MicroStxToReadable(BigToString(ts[Len(ts)].total_calculated))

\* the assert.strictEqual of the final supply; in the placeholder script the
\* one of the placeholder balance comes first
CheckFinalSupply ==
  /\ pc = "final"
  /\ IF variant = "placeholder"
       THEN IF /\ PlaceholderBalance = ExpectedPlaceholderBalance
               /\ PlaceholderFinalSupply(totals) = ExpectedFinalSupply
              THEN pc' = "open" /\ UNCHANGED error
              ELSE pc' = "failed" /\ error' = "AssertionError"
       ELSE IF FinalSupply(totals) = ExpectedFinalSupply
              THEN pc' = "open" /\ UNCHANGED error
              ELSE pc' = "failed" /\ error' = "AssertionError"
  /\ UNCHANGED <<client, currentBlockHeight, currentDate, initStxSupply,
                 vestingResults, lockTransferBlockHeights, lastBlockHeight,
                 blockHeight, totals, unpruned, queries, fds, files, wi>>
  /\ UNCHANGED <<store, hist, report>>

(***************************************************************************)
(* Output to supply.csv.                                                   *)
(***************************************************************************)
\* the numbers of the descriptors that are open
OpenNumbers == {fdnum[p] : p \in {q \in Paths : fds[q] = "open"}}

\* the numbers fs.openSync may return: a number that closeSync has released,
\* or the next number never used (0, 1 and 2 are the standard streams);
\* which one depends on the descriptor table of the process
FreeNumbers ==
  ({fdnum[p] : p \in {q \in Paths : fds[q] = "closed"}} \ OpenNumbers)
  \cup {MaxOf({fdnum[p] : p \in Paths} \cup {2}) + 1}

\* the file fs.writeSync(n, ...) writes to: the one the descriptor with
\* number n is open on; with no such descriptor it throws EBADF
FileOf(n) ==
  IF \E p \in Paths : fds[p] = "open" /\ fdnum[p] = n
    THEN CHOOSE p \in Paths : fds[p] = "open" /\ fdnum[p] = n
    ELSE "EBADF"

\* the unlocked_stx column of index.ts and of the early script
StxStr(total) ==
  LET stxInt == SliceHead(BigToString(total), FracDigits)
      stxFrac == SliceTail(BigToString(total), FracDigits)
  IN  stxInt \o <<".">> \o stxFrac

\* microStxToStx of the placeholder script
MicroStxToStx(microStx) ==
  LET padded == PadStart(microStx, 7)
      stxInt == SliceHead(padded, FracDigits)
      stxFrac == SliceTail(padded, FracDigits)
  IN  stxInt \o <<".">> \o stxFrac

Header ==
  IF IndexLike
    THEN <<"block_height", "unlocked_micro_stx", "unlocked_stx", "estimated_time">>
    ELSE <<"block_height", "unlocked_micro_stx", "unlocked_stx", "vested">>

\* the line written for an entry, as its four columns
Line(entry) ==
  <<entry.block_height, BigToString(entry.total_calculated),
    IF variant = "placeholder"
      THEN MicroStxToStx(BigToString(entry.total_calculated))
      ELSE StxStr(entry.total_calculated),
    IF IndexLike THEN entry.date_time
                 ELSE BigToString(entry.vested_micro_stx)>>

\* fs.openSync('supply.csv', 'w') and the header
OpenCsv ==
  /\ pc = "open"
  /\ \E n \in FreeNumbers : fdnum' = [fdnum EXCEPT !["supply.csv"] = n]
  /\ fds' = [fds EXCEPT !["supply.csv"] = "open"]
  /\ files' = [files EXCEPT !["supply.csv"] = <<Header>>]
  /\ wi' = 0
  /\ pc' = "write"
  /\ UNCHANGED <<client, currentBlockHeight, currentDate, initStxSupply,
                 vestingResults, lockTransferBlockHeights, lastBlockHeight,
                 blockHeight, totals, unpruned, queries, error>>
  /\ UNCHANGED <<store, hist, placeholderAccounts, placeholderVesting,
                 totalPlaceholderBalance, placeholderMap, writes>>

\* one iteration of for (const entry of totals)
WriteRow ==
  /\ pc = "write"
  /\ wi < Len(totals)
  /\ fds["supply.csv"] = "open"
  /\ files' = [files EXCEPT !["supply.csv"] = Append(@, Line(totals[wi + 1]))]
  /\ wi' = wi + 1
  /\ UNCHANGED <<pc, client, currentBlockHeight, currentDate, initStxSupply,
                 vestingResults, lockTransferBlockHeights, lastBlockHeight,
                 blockHeight, totals, unpruned, queries, fds, error>>
  /\ UNCHANGED <<store, hist, report>>

\* index.ts and the early script: fs.closeSync(fd) and client.end()
CloseCsv ==
  /\ pc = "write" /\ variant # "placeholder"
  /\ wi = Len(totals)
  /\ fds' = [fds EXCEPT !["supply.csv"] = "closed"]
  /\ client' = "ended"
  /\ pc' = "done"
  /\ UNCHANGED <<currentBlockHeight, currentDate, initStxSupply,
                 vestingResults, lockTransferBlockHeights, lastBlockHeight,
                 blockHeight, totals, unpruned, queries, files, wi, error>>
  /\ UNCHANGED <<store, hist, report>>

(***************************************************************************)
(* placeholder script: output to placeholder-entries.csv and to            *)
(* placeholder-unique.csv.  Every row of the two files is written with     *)
(* fs.writeSync(fd, ...), fd being the descriptor of supply.csv.           *)
(***************************************************************************)
\* fs.closeSync(fd) after the rows of supply.csv
CloseSupply ==
  /\ pc = "write" /\ variant = "placeholder"
  /\ wi = Len(totals)
  /\ fds' = [fds EXCEPT !["supply.csv"] = "closed"]
  /\ pc' = "openEntries"
  /\ UNCHANGED <<client, currentBlockHeight, currentDate, initStxSupply,
                 vestingResults, lockTransferBlockHeights, lastBlockHeight,
                 blockHeight, totals, unpruned, queries, files, wi, error>>
  /\ UNCHANGED <<store, hist, report>>

EntriesHeader == <<"type", "unlock_or_vest_block", "address", "stx_amount">>

\* fs.openSync('placeholder-entries.csv', 'w') and the header
OpenEntries ==
  /\ pc = "openEntries"
  /\ \E n \in FreeNumbers : fdnum' = [fdnum EXCEPT !["placeholder-entries.csv"] = n]
  /\ fds' = [fds EXCEPT !["placeholder-entries.csv"] = "open"]
  /\ files' = [files EXCEPT !["placeholder-entries.csv"] = <<EntriesHeader>>]
  /\ wi' = 0
  /\ pc' = "entries"
  /\ UNCHANGED <<client, currentBlockHeight, currentDate, initStxSupply,
                 vestingResults, lockTransferBlockHeights, lastBlockHeight,
                 blockHeight, totals, unpruned, queries, error>>
  /\ UNCHANGED <<store, hist, placeholderAccounts, placeholderVesting,
                 totalPlaceholderBalance, placeholderMap, writes>>

\* the entries of the two loops over placeholderAccounts and placeholderVesting
Entries == placeholderAccounts \o placeholderVesting

\* the line of the k-th entry, as its four columns
EntryLine(k) ==
  <<IF k <= Len(placeholderAccounts) THEN "locked_or_liquid" ELSE "vesting",
    Entries[k].block_height, Entries[k].address.name,
    MicroStxToStx(BigToString(Entries[k].amount))>>

\* what a row write leaves in the history: the path whose descriptor was
\* passed and the state of that descriptor, the file the loop is writing,
\* and the file the line went to ("EBADF" when the write threw)
WriteRecord(passed, artifact) ==
  [fd |-> passed, state |-> fds[passed], artifact |-> artifact,
   landed |-> FileOf(fdnum[passed])]

\* one iteration of the loop over placeholderAccounts or of the loop over
\* placeholderVesting: fs.writeSync(fd, ...)
WriteEntry ==
  /\ pc = "entries"
  /\ wi < Len(Entries)
  /\ writes' = Append(writes, WriteRecord("supply.csv", "placeholder-entries.csv"))
  /\ IF FileOf(fdnum["supply.csv"]) = "EBADF"
       THEN /\ pc' = "failed" /\ error' = "EBADF"
            /\ UNCHANGED <<files, wi>>
       ELSE /\ files' = [files EXCEPT ![FileOf(fdnum["supply.csv"])] =
                           Append(@, EntryLine(wi + 1))]
            /\ wi' = wi + 1
            /\ UNCHANGED <<pc, error>>
  /\ UNCHANGED <<client, currentBlockHeight, currentDate, initStxSupply,
                 vestingResults, lockTransferBlockHeights, lastBlockHeight,
                 blockHeight, totals, unpruned, queries, fds>>
  /\ UNCHANGED <<store, hist, placeholderAccounts, placeholderVesting,
                 totalPlaceholderBalance, placeholderMap, fdnum>>

\* fs.closeSync(placeholderEntriesFd)
CloseEntries ==
  /\ pc = "entries"
  /\ wi = Len(Entries)
  /\ fds' = [fds EXCEPT !["placeholder-entries.csv"] = "closed"]
  /\ pc' = "openUnique"
  /\ UNCHANGED <<client, currentBlockHeight, currentDate, initStxSupply,
                 vestingResults, lockTransferBlockHeights, lastBlockHeight,
                 blockHeight, totals, unpruned, queries, files, wi, error>>
  /\ UNCHANGED <<store, hist, report>>

UniqueHeader == <<"address", "stx_amount">>

\* fs.openSync('placeholder-unique.csv', 'w') and the header
OpenUnique ==
  /\ pc = "openUnique"
  /\ \E n \in FreeNumbers : fdnum' = [fdnum EXCEPT !["placeholder-unique.csv"] = n]
  /\ fds' = [fds EXCEPT !["placeholder-unique.csv"] = "open"]
  /\ files' = [files EXCEPT !["placeholder-unique.csv"] = <<UniqueHeader>>]
  /\ wi' = 0
  /\ pc' = "unique"
  /\ UNCHANGED <<client, currentBlockHeight, currentDate, initStxSupply,
                 vestingResults, lockTransferBlockHeights, lastBlockHeight,
                 blockHeight, totals, unpruned, queries, error>>
  /\ UNCHANGED <<store, hist, placeholderAccounts, placeholderVesting,
                 totalPlaceholderBalance, placeholderMap, writes>>

\* the line of the k-th entry of placeholderMap, as its two columns
UniqueLine(k) ==
  <<placeholderMap[k][1].name, MicroStxToStx(BigToString(placeholderMap[k][2]))>>

\* one iteration of for (const [address, stx] of placeholderMap):
\* fs.writeSync(fd, ...)
WriteUnique ==
  /\ pc = "unique"
  /\ wi < Len(placeholderMap)
  /\ writes' = Append(writes, WriteRecord("supply.csv", "placeholder-unique.csv"))
  /\ IF FileOf(fdnum["supply.csv"]) = "EBADF"
       THEN /\ pc' = "failed" /\ error' = "EBADF"
            /\ UNCHANGED <<files, wi>>
       ELSE /\ files' = [files EXCEPT ![FileOf(fdnum["supply.csv"])] =
                           Append(@, UniqueLine(wi + 1))]
            /\ wi' = wi + 1
            /\ UNCHANGED <<pc, error>>
  /\ UNCHANGED <<client, currentBlockHeight, currentDate, initStxSupply,
                 vestingResults, lockTransferBlockHeights, lastBlockHeight,
                 blockHeight, totals, unpruned, queries, fds>>
  /\ UNCHANGED <<store, hist, placeholderAccounts, placeholderVesting,
                 totalPlaceholderBalance, placeholderMap, fdnum>>

\* fs.closeSync(placeholderUniqueFd) and client.end()
CloseUnique ==
  /\ pc = "unique"
  /\ wi = Len(placeholderMap)
  /\ fds' = [fds EXCEPT !["placeholder-unique.csv"] = "closed"]
  /\ client' = "ended"
  /\ pc' = "done"
  /\ UNCHANGED <<currentBlockHeight, currentDate, initStxSupply,
                 vestingResults, lockTransferBlockHeights, lastBlockHeight,
                 blockHeight, totals, unpruned, queries, files, wi, error>>
  /\ UNCHANGED <<store, hist, report>>

(***************************************************************************)
(* The pipeline is run again against the unchanged store.                  *)
(***************************************************************************)
Rerun ==
  /\ pc = "done"
  /\ run = 1
  /\ run' = 2
  /\ prevDate' = currentDate
  /\ prevFiles' = files
  /\ pc' = "start"
  /\ client' = "none"
  /\ currentBlockHeight' = NaN
  /\ currentDate' = 0
  /\ initStxSupply' = Null
  /\ vestingResults' = <<>>
  /\ lockTransferBlockHeights' = <<>>
  /\ lastBlockHeight' = NaN
  /\ blockHeight' = NaN
  /\ totals' = <<>>
  /\ unpruned' = <<>>
  /\ queries' = <<>>
  /\ fds' = [p \in Paths |-> "none"]
  /\ wi' = 0
  /\ error' = "none"
  /\ placeholderAccounts' = <<>>
  /\ placeholderVesting' = <<>>
  /\ totalPlaceholderBalance' = Null
  /\ placeholderMap' = <<>>
  /\ fdnum' = [p \in Paths |-> 0]
  /\ writes' = <<>>
  /\ UNCHANGED <<files, store>>

Next ==
  \/ StartIndex
  \/ StartEarly
  \/ StartPlaceholder
  \/ StepIndex
  \/ StepEarly
  \/ LoopEnd
  \/ Validate
  \/ PruneTotals
  \/ CheckFinalSupply
  \/ OpenCsv
  \/ WriteRow
  \/ CloseCsv
  \/ CloseSupply
  \/ OpenEntries
  \/ WriteEntry
  \/ CloseEntries
  \/ OpenUnique
  \/ WriteUnique
  \/ CloseUnique
  \/ Rerun

Spec == Init /\ [][Next]_vars

(***************************************************************************)
(* Properties of the series.                                               *)
(***************************************************************************)
Heights(ts) == [i \in 1..Len(ts) |-> ts[i].block_height]

TotalsOf(ts) == [i \in 1..Len(ts) |-> ts[i].total_calculated]

Monotone(ts) ==
  \A i \in 1..(Len(ts) - 1) :
    BigGE(ts[i + 1].total_calculated, ts[i].total_calculated)

Consecutive(ts) ==
  \A i \in 1..(Len(ts) - 1) : ts[i + 1].block_height = ts[i].block_height + 1

\* the run is in the pruning pass or past it, or in the report writer
PastValidator ==
  pc \in {"prune", "final", "open", "write", "openEntries", "entries",
          "openUnique", "unique", "done"}

\* the accumulator loop has ended and nothing has been pruned yet
LoopDone == pc = "validate"

\* the series is the one the loop is building or has just built
PrePruning == pc \in {"loop", "validate"}

\* the pruning pass has run
Pruned ==
  /\ IndexLike
  /\ pc \in {"final", "open", "write", "openEntries", "entries",
             "openUnique", "unique", "done"}

IsScenario == accounts = ScenarioAccounts /\ account_vesting = ScenarioVesting

\* C1: a run that is past the validator has a series whose totals never
\* decrease, before pruning and after it, and so has every line it writes;
\* a series with a decreasing pair has opened no file.
C1_MonotoneAtWriter ==
  /\ PastValidator => Monotone(unpruned) /\ Monotone(totals)
  /\ (pc # "start" /\ ~Monotone(totals)) => fds["supply.csv"] = "none"

\* C1 witness: the index script has pruned a series down to several rows
\* of different totals and written all of them
C1_Witness ==
  /\ variant = "index" /\ pc = "done"
  /\ Len(totals) >= 2 /\ Len(unpruned) > Len(totals)
  /\ Len(files["supply.csv"]) = Len(totals) + 1

\* C2 as claimed: whatever the heights, the series the loop leaves is not
\* empty, starts at the initial height and goes up by one
C2_NonEmptyAlways ==
  LoopDone =>
    /\ unpruned # <<>>
    /\ Num(unpruned[1].block_height) = currentBlockHeight
    /\ Consecutive(unpruned)

\* C2 amended: the series, also while it is being built, starts at the
\* initial height and goes up by one; when the loop ends it is non-empty
\* exactly when the initial height is below the terminal height (which is a
\* number only when both lists of heights are non-empty)
C2_ConsecutiveFromInitial ==
  /\ (PrePruning /\ totals # <<>>) =>
        /\ Num(totals[1].block_height) = currentBlockHeight
        /\ Consecutive(totals)
  /\ LoopDone =>
        /\ unpruned = totals
        /\ (unpruned # <<>>) <=>
              /\ lockTransferBlockHeights # <<>>
              /\ vestingResults # <<>>
              /\ currentBlockHeight[1] < lastBlockHeight[1]

\* C2 witness: a loop that ended with several entries
C2_Witness == LoopDone /\ Len(unpruned) >= 3

\* C3 as claimed: the series ends at the terminal height max + 5 itself; in
\* the scenario it covers blocks 100..110
C3_ThroughTerminal ==
  /\ (LoopDone /\ unpruned # <<>>) =>
        Num(unpruned[Len(unpruned)].block_height) = lastBlockHeight
  /\ (LoopDone /\ IsScenario) =>
        /\ Len(unpruned) = 11
        /\ \A i \in 1..Len(unpruned) : unpruned[i].block_height = 99 + i

\* C3 amended: the series has one entry for every height from the initial
\* height up to max + 4, the terminal height max + 5 excluded; in the
\* scenario it covers blocks 100..109, 1,000,000 for 100..104 and 1,500,000
\* for 105..109, and pruning leaves the rows of blocks 100 and 105
C3_UpToTerminalExcluded ==
  /\ (LoopDone /\ unpruned # <<>>) =>
        /\ unpruned[1].block_height = currentBlockHeight[1]
        /\ Len(unpruned) = lastBlockHeight[1] - currentBlockHeight[1]
        /\ unpruned[Len(unpruned)].block_height = lastBlockHeight[1] - 1
        /\ lastBlockHeight[1] =
             MaxOf({r.lock_transfer_block_id : r \in accounts}
                   \cup {r.block_id : r \in {v \in account_vesting : v.type = "STACKS"}}) + 5
  /\ (LoopDone /\ IsScenario) =>
        /\ Heights(unpruned) = [i \in 1..10 |-> 99 + i]
        /\ \A i \in 1..5 : unpruned[i].total_calculated = Big(0, 1, 0)
        /\ \A i \in 6..10 : unpruned[i].total_calculated = Big(0, 1, 500000)
  /\ (Pruned /\ IsScenario) =>
        /\ Heights(totals) = <<100, 105>>
        /\ TotalsOf(totals) = <<Big(0, 1, 0), Big(0, 1, 500000)>>

\* C3 witness: the scenario, pruned by the index script
C3_Witness == IsScenario /\ Pruned /\ Len(unpruned) = 10 /\ Len(totals) = 2

\* a height at which neither list has an entry and which is not the first
Quiet(h) ==
  /\ ~Includes(VestingBlockHeights, h)
  /\ ~Includes(lockTransferBlockHeights, h)
  /\ ~FirstStep(h)

\* C4: an entry at a quiet height repeats the queried, vested and total
\* values of the entry before it, and no query was sent for its height
C4_CarryForward ==
  PrePruning =>
    \A i \in 1..Len(totals) :
      Quiet(totals[i].block_height) =>
        /\ i > 1
        /\ totals[i].queried_micro_stx = totals[i - 1].queried_micro_stx
        /\ totals[i].vested_micro_stx = totals[i - 1].vested_micro_stx
        /\ totals[i].total_calculated = totals[i - 1].total_calculated
        /\ \A k \in 1..Len(queries) : queries[k][2] # totals[i].block_height

\* C4 witness: a quiet entry that carries a vested amount, after queries
C4_Witness ==
  /\ LoopDone /\ queries # <<>>
  /\ \E i \in 2..Len(totals) :
        /\ Quiet(totals[i].block_height)
        /\ totals[i].vested_micro_stx # BigZero

NoAdjacentEqual(ts) ==
  \A i \in 1..(Len(ts) - 1) : ts[i + 1].total_calculated # ts[i].total_calculated

\* the first entry and every entry whose total differs from the one before it
KeepChanged(ts) ==
  LET kept == SortAsc({i \in 1..Len(ts) :
                 i = 1 \/ ts[i].total_calculated # ts[i - 1].total_calculated})
  IN  [k \in 1..Len(kept) |-> ts[kept[k]]]

\* C5: after the pruning pass no two adjacent entries have the same total,
\* and the series is the first entry followed by every entry whose total
\* differed from its predecessor's, in the original order
C5_PrunedNoRepeats ==
  Pruned => NoAdjacentEqual(totals) /\ totals = KeepChanged(unpruned)

\* C5 witness: pruning removed entries and left several
C5_Witness == Pruned /\ pc = "final" /\ Len(totals) >= 2 /\ Len(unpruned) > Len(totals) + 2

\* C6 as claimed: the pruned series keeps the first and the last entry
C6_KeepsFirstAndLast ==
  Pruned =>
    /\ totals[1].block_height = unpruned[1].block_height
    /\ totals[Len(totals)].block_height = unpruned[Len(unpruned)].block_height

\* C6 amended: pruning keeps the first entry; the last entry is kept only when
\* it is also the first: in a longer series it repeats the total of the entry
\* before it (the last unlock is five blocks back) and is removed, and the
\* last row that remains has its total
C6_KeepsFirstDropsFlatLast ==
  Pruned =>
    /\ totals[1] = unpruned[1]
    /\ totals[Len(totals)].total_calculated = unpruned[Len(unpruned)].total_calculated
    /\ (Len(unpruned) >= 2) =>
          totals[Len(totals)].block_height < unpruned[Len(unpruned)].block_height

\* C6 witness: a pruned series of several rows whose last row is not the
\* last entry of the series before pruning
C6_Witness ==
  /\ Pruned /\ Len(totals) >= 2
  /\ totals[Len(totals)].block_height # unpruned[Len(unpruned)].block_height

(***************************************************************************)
(* Properties of the report and of the queries behind the series.          *)
(***************************************************************************)
\* the lines of supply.csv after the header
Rows(file) == SubSeq(file, 2, Len(file))

\* C7 as claimed: in every script the unlocked_stx column of a written line
\* is the digit string of its unlocked_micro_stx column, padded with zeros to
\* seven digits, with a point six digits from the right
C7_PaddedRendering ==
  \A k \in 2..Len(files["supply.csv"]) :
    LET line == files["supply.csv"][k]
    IN  line[3] = MicroStxToStx(line[2])

\* C8 as claimed: a second run against the same store leaves supply.csv
\* byte for byte as the first run left it
C8_ByteIdentical ==
  (run = 2 /\ pc = "done") => files["supply.csv"] = prevFiles["supply.csv"]

\* C8 amended: a second run against the same store writes the same header
\* and the same rows with the same block_height, unlocked_micro_stx and
\* unlocked_stx; the fourth column is the same in the early script (vested)
\* and in the other two scripts (estimated_time) is that of the first run moved by
\* the time between the two starts, so the files are identical only when
\* both runs read the same second
C8_IdenticalUpToClock ==
  (run = 2 /\ pc = "done") =>
    LET new == files["supply.csv"]
        old == prevFiles["supply.csv"]
    IN  /\ Len(new) = Len(old)
        /\ new[1] = old[1]
        /\ \A k \in 2..Len(new) :
              /\ new[k][1] = old[k][1]
              /\ new[k][2] = old[k][2]
              /\ new[k][3] = old[k][3]
              /\ IF IndexLike
                   THEN new[k][4] - old[k][4] = (currentDate - prevDate) * 1000
                   ELSE new[k][4] = old[k][4]
        /\ (IndexLike /\ Len(new) >= 2) =>
              ((new = old) <=> (currentDate = prevDate))

\* C8 witness: the index script has run twice, a second apart, and has
\* written several rows both times
C8_Witness ==
  /\ run = 2 /\ pc = "done" /\ variant = "index"
  /\ currentDate # prevDate
  /\ Len(files["supply.csv"]) >= 3
  /\ files["supply.csv"] # prevFiles["supply.csv"]

\* what STX_TOTAL_VESTED_BY_BLOCK_QUERY sums at h, zero for no row: the
\* amounts released after the initial height and at or before h
FreshVested(h) ==
  SumBig({<<r, r.vesting_value>> :
            r \in {v \in account_vesting :
                     /\ v.type = "STACKS"
                     /\ v.block_id > currentBlockHeight[1]
                     /\ v.block_id <= h}})

\* C9: in the index script, and in the placeholder script, which has the
\* same loop, every entry of the series holds what the two
\* queries return when they are evaluated at the entry's own height, whether
\* the step queried or carried the values forward
C9_SameAsRequery ==
  (IndexLike /\ PrePruning) =>
    \A i \in 1..Len(totals) :
      /\ totals[i].queried_micro_stx = StxTotalAtBlock(totals[i].block_height)
      /\ totals[i].vested_micro_stx = FreshVested(totals[i].block_height)

\* C9 witness: a finished series with a carried-forward entry after an
\* unlock that changed the balance and after a vesting release
C9_Witness ==
  /\ variant = "index" /\ LoopDone
  /\ \E i \in 3..Len(totals) :
        /\ Quiet(totals[i].block_height)
        /\ totals[i].vested_micro_stx # BigZero
        /\ totals[i].queried_micro_stx # totals[1].queried_micro_stx

\* C10 as claimed: in every script the entry of the first step and of every
\* lock-transfer height holds the result of the balance query for its height
C10_QueriedIsQueryResult ==
  PrePruning =>
    \A i \in 1..Len(totals) :
      LET h == totals[i].block_height
      IN  (Includes(lockTransferBlockHeights, h) \/ i = 1) =>
            totals[i].queried_micro_stx =
              (IF IndexLike THEN StxTotalAtBlock(h)
                            ELSE StxTotalTxsAtBlock(h))

(***************************************************************************)
(* Properties of the placeholder writers.                                  *)
(***************************************************************************)
\* the run has closed supply.csv and gone on to the placeholder files
PastSupply ==
  variant = "placeholder" /\ pc \in {"openEntries", "entries", "openUnique", "unique"}

\* the addresses of the placeholder entries
PlaceholderAddresses == {Entries[k].address : k \in 1..Len(Entries)}

\* C11 as claimed: in the placeholder script every row write is given a
\* descriptor that is open at the time of the write and the row goes to the
\* file its loop is writing; no row is written to supply.csv or through its
\* descriptor once supply.csv is closed; and the run that has closed
\* supply.csv goes on without an error and ends with one row for every
\* placeholder account and vesting entry in placeholder-entries.csv, one row
\* for every distinct placeholder address in placeholder-unique.csv, and the
\* store connection ended
C11_RowsReachOwnArtifact ==
  /\ \A k \in 1..Len(writes) :
        /\ writes[k].state = "open"
        /\ writes[k].landed = writes[k].artifact
        /\ (writes[k].fd = "supply.csv" \/ writes[k].landed = "supply.csv") =>
              writes[k].state # "closed"
  /\ (variant = "placeholder" /\ fds["supply.csv"] = "closed") => error = "none"
  /\ (variant = "placeholder" /\ pc = "done") =>
        /\ client = "ended"
        /\ Len(files["placeholder-entries.csv"]) = 1 + Len(Entries)
        /\ Len(files["placeholder-unique.csv"]) = 1 + Cardinality(PlaceholderAddresses)

\* what the placeholder writers do instead: every row write passes the
\* descriptor of supply.csv, which is closed by then.  The row reaches the
\* file of its loop exactly when openSync gave that file the number that
\* closing supply.csv released; otherwise the first write of the loop throws
\* EBADF, the file keeps its header only, its descriptor stays open and the
\* connection is not ended.  supply.csv itself is not written to again.
StaleDescriptorOutcomes ==
  /\ \A k \in 1..Len(writes) :
        /\ writes[k].fd = "supply.csv" /\ writes[k].state = "closed"
        /\ writes[k].landed \in {writes[k].artifact, "EBADF"}
        /\ (writes[k].landed = "EBADF") => (k = Len(writes) /\ error = "EBADF")
  /\ PastSupply => Len(files["supply.csv"]) = 1 + Len(totals)
  /\ (pc = "entries") =>
        Len(files["placeholder-entries.csv"]) = 1 + wi
  /\ (variant = "placeholder" /\ error = "EBADF") =>
        /\ pc = "failed" /\ client = "connected"
        /\ \E p \in Paths \ {"supply.csv"} :
              /\ fds[p] = "open" /\ fdnum[p] # fdnum["supply.csv"]
              /\ files[p] \in {<<EntriesHeader>>, <<UniqueHeader>>}
  /\ (variant = "placeholder" /\ pc = "done") =>
        /\ client = "ended"
        /\ fdnum["placeholder-entries.csv"] = fdnum["supply.csv"]
        /\ fdnum["placeholder-unique.csv"] = fdnum["supply.csv"]
        /\ files["placeholder-entries.csv"] =
              <<EntriesHeader>> \o [k \in 1..Len(Entries) |-> EntryLine(k)]
        /\ files["placeholder-unique.csv"] =
              <<UniqueHeader>> \o [k \in 1..Len(placeholderMap) |-> UniqueLine(k)]
        /\ Len(placeholderMap) = Cardinality(PlaceholderAddresses)

\* a run of the placeholder script in which both files received their rows,
\* fewer distinct addresses than entries
StaleDescriptorReused ==
  /\ variant = "placeholder" /\ pc = "done"
  /\ Len(writes) = Len(Entries) + Len(placeholderMap)
  /\ Len(placeholderMap) < Len(Entries)

====
